---- MODULE Spec2Model ----
(***************************************************************************)
(* anybase: conversion of a numeral between two caller-supplied digit      *)
(* alphabets through an arbitrary-precision magnitude.                     *)
(*                                                                         *)
(* Two entry points are modelled side by side on the same arguments:       *)
(*   - convert_base of lib.rs, with the BigInt of lib.rs (limb radix 1e9), *)
(*   - Converter::new + Converter::convert of converter.rs, with the       *)
(*     BigInt of big_int.rs (limb modulus u32::MAX).                       *)
(* A character is its Unicode scalar value; a string is a sequence of      *)
(* characters; its byte length is the sum of the UTF-8 widths.             *)
(***************************************************************************)
EXTENDS Integers, Sequences, FiniteSets, TLC

\* Bounds of the explored arguments.
MaxInputLen == 2
MaxTableLen == 2
\* Cap on the length of out_chars, so that a render loop that never ends
\* has finitely many states.
MaxOut == 12

\* '0', '1' (one byte each in UTF-8) and U+4F60 (three bytes).
Chars == {48, 49, 20320}

Strs(n) == UNION {[1..k -> Chars] : k \in 0..n}

VARIABLES
    input, src_table, dst_table,   \* the arguments of the scenario
    l_pc, l_call, l_parse, l_big, l_out, l_ret,   \* convert_base (lib.rs)
    c_pc, c_conv, c_new, c_parse, c_big, c_out, c_ret,   \* Converter (converter.rs)
    shared, fwd, back,   \* a Converter shared by concurrent convert calls
    b_kind, b_limbs, b_ref, b_last, b_steps   \* a BigInt under its operations

vars == <<input, src_table, dst_table,
          l_pc, l_call, l_parse, l_big, l_out, l_ret,
          c_pc, c_conv, c_new, c_parse, c_big, c_out, c_ret,
          shared, fwd, back,
          b_kind, b_limbs, b_ref, b_last, b_steps>>

(***************************************************************************)
(* Strings                                                                 *)
(***************************************************************************)

\* char::len_utf8, which str::len sums.
Utf8Len(c) == IF c < 128 THEN 1 ELSE IF c < 2048 THEN 2 ELSE IF c < 65536 THEN 3 ELSE 4

RECURSIVE ByteLen(_)
\* str::len(): the length in bytes.
ByteLen(s) == IF s = <<>> THEN 0 ELSE Utf8Len(Head(s)) + ByteLen(Tail(s))

\* str::chars().count(): the length in characters.
CharCount(s) == Len(s)

\* Vec::reverse
Reverse(s) == [i \in 1..Len(s) |-> s[Len(s) + 1 - i]]

(***************************************************************************)
(* Results                                                                 *)
(***************************************************************************)

\* Result<String, String>: Ok(out), or Err(message); a panic is a third outcome.
\* ch is the character an Err message quotes (0 when it quotes none).
Ok(out) == [kind |-> "Ok", msg |-> "", ch |-> 0, out |-> out]
Err(msg, ch) == [kind |-> "Err", msg |-> msg, ch |-> ch, out |-> <<>>]
Panic(msg) == [kind |-> "Panic", msg |-> msg, ch |-> 0, out |-> <<>>]

SrcEmpty == "src_table is empty"
SrcDup == "src_table contains duplicate characters"
DstEmpty == "dst_table is empty"
DstDup == "dst_table contains duplicate characters"
BadDigit == "Input character not found in src_table"
DivZero == "division by zero"

(***************************************************************************)
(* BigInt of lib.rs: little-endian limbs in radix LIMB_RADIX, u128          *)
(* intermediates (wide enough for every value met here, so they are plain  *)
(* integers).                                                              *)
(***************************************************************************)

LIMB_RADIX == 1000000000

zero == <<0>>

is_zero(limbs) == Len(limbs) = 1 /\ limbs[1] = 0

RECURSIVE normalize(_)
normalize(limbs) ==
    IF Len(limbs) > 1 /\ limbs[Len(limbs)] = 0
    THEN normalize(SubSeq(limbs, 1, Len(limbs) - 1))
    ELSE limbs

RECURSIVE PushCarry(_, _)
\* while carry > 0 { limbs.push(carry % LIMB_RADIX); carry /= LIMB_RADIX }
PushCarry(limbs, carry) ==
    IF carry > 0
    THEN PushCarry(Append(limbs, carry % LIMB_RADIX), carry \div LIMB_RADIX)
    ELSE limbs

RECURSIVE MulSweep(_, _, _, _)
\* for limb in &mut limbs { prod = limb * small + carry; ... }, from limb i on
MulSweep(limbs, i, small, carry) ==
    IF i > Len(limbs)
    THEN [limbs |-> limbs, carry |-> carry]
    ELSE LET prod == limbs[i] * small + carry
         IN  MulSweep([limbs EXCEPT ![i] = prod % LIMB_RADIX], i + 1, small,
                      prod \div LIMB_RADIX)

mul_small(limbs, small) ==
    IF small = 0 THEN <<0>>
    ELSE IF small = 1 THEN limbs
    ELSE LET s == MulSweep(limbs, 1, small, 0)
         IN  PushCarry(s.limbs, s.carry)

RECURSIVE AddSweep(_, _, _)
\* for limb in &mut limbs { if carry == 0 { break } sum = limb + carry; ... }
AddSweep(limbs, i, carry) ==
    IF i > Len(limbs) \/ carry = 0
    THEN [limbs |-> limbs, carry |-> carry]
    ELSE LET sum == limbs[i] + carry
         IN  AddSweep([limbs EXCEPT ![i] = sum % LIMB_RADIX], i + 1,
                      sum \div LIMB_RADIX)

add_small(limbs, small) ==
    LET s == AddSweep(limbs, 1, small)
    IN  PushCarry(s.limbs, s.carry)

RECURSIVE DivSweep(_, _, _, _)
\* for limb in limbs.iter_mut().rev() { v = rem * LIMB_RADIX + limb; ... };
\* the quotient limb v / small is below LIMB_RADIX (rem < small), so its cast
\* to u32 keeps it.
DivSweep(limbs, i, small, rem) ==
    IF i < 1
    THEN [limbs |-> limbs, rem |-> rem]
    ELSE LET v == rem * LIMB_RADIX + limbs[i]
         IN  DivSweep([limbs EXCEPT ![i] = v \div small], i - 1, small, v % small)

\* Returns the quotient limbs and the remainder, or panics on a zero divisor.
div_mod_small(limbs, small) ==
    IF small = 0
    THEN [panic |-> TRUE, limbs |-> limbs, rem |-> 0]
    ELSE LET d == DivSweep(limbs, Len(limbs), small, 0)
         IN  [panic |-> FALSE, limbs |-> normalize(d.limbs), rem |-> d.rem]

(***************************************************************************)
(* BigInt of big_int.rs: the same operations with limbs and carries taken  *)
(* modulo LimbType::MAX = u32::MAX = 4294967295 and u64 intermediates.     *)
(* That modulus lies above every integer held here (all are below 2^31),   *)
(* so x % MAX is x and x / MAX is 0 for each of them, and rem * MAX + limb *)
(* is such an integer only when rem = 0, which is the case at the top limb *)
(* of every sweep and hence at every limb of a one-limb magnitude.         *)
(***************************************************************************)

\* x % LimbType::MAX as u64
RemMAX(x) == x

\* x / LimbType::MAX as u64
QuoMAX(x) == 0

\* rem * LimbType::MAX as u64 + u64::from(limb); undefined here beyond rem = 0
TimesMAXPlus(rem, limb) == IF rem = 0 THEN limb ELSE CHOOSE v \in {} : TRUE

big_int_zero == <<0>>

big_int_is_zero(limbs) == Len(limbs) = 1 /\ limbs[1] = 0

RECURSIVE big_int_normalize(_)
big_int_normalize(limbs) ==
    IF Len(limbs) > 1 /\ limbs[Len(limbs)] = 0
    THEN big_int_normalize(SubSeq(limbs, 1, Len(limbs) - 1))
    ELSE limbs

RECURSIVE big_int_PushCarry(_, _)
big_int_PushCarry(limbs, carry) ==
    IF carry > 0
    THEN big_int_PushCarry(Append(limbs, RemMAX(carry)), QuoMAX(carry))
    ELSE limbs

RECURSIVE big_int_MulSweep(_, _, _, _)
big_int_MulSweep(limbs, i, small, carry) ==
    IF i > Len(limbs)
    THEN [limbs |-> limbs, carry |-> carry]
    ELSE LET prod == limbs[i] * small + carry
         IN  big_int_MulSweep([limbs EXCEPT ![i] = RemMAX(prod)], i + 1, small,
                              QuoMAX(prod))

big_int_mul_small(limbs, small) ==
    IF small = 0 THEN <<0>>
    ELSE IF small = 1 THEN limbs
    ELSE LET s == big_int_MulSweep(limbs, 1, small, 0)
         IN  big_int_PushCarry(s.limbs, s.carry)

RECURSIVE big_int_AddSweep(_, _, _)
big_int_AddSweep(limbs, i, carry) ==
    IF i > Len(limbs) \/ carry = 0
    THEN [limbs |-> limbs, carry |-> carry]
    ELSE LET sum == limbs[i] + carry
         IN  big_int_AddSweep([limbs EXCEPT ![i] = RemMAX(sum)], i + 1, QuoMAX(sum))

big_int_add_small(limbs, small) ==
    LET s == big_int_AddSweep(limbs, 1, small)
    IN  big_int_PushCarry(s.limbs, s.carry)

RECURSIVE big_int_DivSweep(_, _, _, _)
big_int_DivSweep(limbs, i, small, rem) ==
    IF i < 1
    THEN [limbs |-> limbs, rem |-> rem]
    ELSE LET v == TimesMAXPlus(rem, limbs[i])
         IN  big_int_DivSweep([limbs EXCEPT ![i] = v \div small], i - 1, small,
                              v % small)

big_int_div_mod_small(limbs, small) ==
    IF small = 0
    THEN [panic |-> TRUE, limbs |-> limbs, rem |-> 0]
    ELSE LET d == big_int_DivSweep(limbs, Len(limbs), small, 0)
         IN  [panic |-> FALSE, limbs |-> big_int_normalize(d.limbs), rem |-> d.rem]

(***************************************************************************)
(* lib.rs: parse_to_bigint, bigint_to_dst_table, convert_base              *)
(***************************************************************************)

RECURSIVE InsertAll(_, _, _)
\* for (i, ch) in table.chars().enumerate() { if map.insert(ch, i).is_some()
\* { duplicate } }: the HashMap as a function from characters to digit values.
InsertAll(table, i, map) ==
    IF i > Len(table)
    THEN [dup |-> FALSE, map |-> map]
    ELSE IF table[i] \in DOMAIN map
    THEN [dup |-> TRUE, map |-> map]
    ELSE InsertAll(table, i + 1, map @@ (table[i] :> (i - 1)))

EmptyMap == [c \in {} |-> 0]

\* let src_base = src_table.len() as u32: the length in BYTES
lib_src_base(table) == ByteLen(table)

RECURSIVE ParseLoop_ReportsLast(_, _, _, _)
\* ParseLoop, but scanning on after an absent character and reporting the
\* last one it meets.
ParseLoop_ReportsLast(inp, i, map, st) ==
    IF i > Len(inp)
    THEN [err |-> FALSE, ch |-> 0, big |-> st.big, turns |-> i - 1]
    ELSE IF inp[i] \notin DOMAIN map
    THEN LET rest == ParseLoop_ReportsLast(inp, i + 1, map, st)
         IN  IF rest.err THEN rest
             ELSE [err |-> TRUE, ch |-> inp[i], big |-> st.big, turns |-> i - 1]
    ELSE ParseLoop_ReportsLast(inp, i + 1, map,
             [st EXCEPT !.big = add_small(mul_small(st.big, st.base), map[inp[i]])])

RECURSIVE ParseLoop(_, _, _, _)
\* for ch in input.chars() { digit = map.get(ch) or return Err; big.mul_small(
\* src_base); big.add_small(digit) }, from character i on
ParseLoop(inp, i, map, st) ==
    IF i > Len(inp)
    THEN [err |-> FALSE, ch |-> 0, big |-> st.big, turns |-> i - 1]
    ELSE IF inp[i] \notin DOMAIN map
    THEN [err |-> TRUE, ch |-> inp[i], big |-> st.big, turns |-> i - 1]
    ELSE ParseLoop(inp, i + 1, map,
                   [st EXCEPT !.big = add_small(mul_small(st.big, st.base), map[inp[i]])])

\* Result<BigInt, String>: res is the Err (kind "Ok" stands for Ok(big)).
parse_to_bigint(inp, table) ==
    IF table = <<>>
    THEN [res |-> Err(SrcEmpty, 0), big |-> zero, base |-> 0, turns |-> 0]
    ELSE LET m == InsertAll(table, 1, EmptyMap)
         IN  IF m.dup
             THEN [res |-> Err(SrcDup, 0), big |-> zero, base |-> 0, turns |-> 0]
             ELSE LET base == lib_src_base(table)
                      p == ParseLoop(inp, 1, m.map, [big |-> zero, base |-> base])
                  IN  IF p.err
                      THEN [res |-> Err(BadDigit, p.ch), big |-> p.big, base |-> base,
                            turns |-> p.turns]
                      ELSE [res |-> Ok(<<>>), big |-> p.big, base |-> base, turns |-> p.turns]

\* bigint_to_dst_table_enter without the zero case: the loop is not entered
\* for a zero magnitude and the empty out_chars is returned.
bigint_to_dst_table_enter_NoZeroCase(big, table) ==
    IF table = <<>>
    THEN [next |-> FALSE, res |-> Err(DstEmpty, 0)]
    ELSE IF is_zero(big)
    THEN [next |-> FALSE, res |-> Ok(<<>>)]
    ELSE [next |-> TRUE, res |-> Ok(<<>>)]

\* The part of bigint_to_dst_table before its loop: the empty-table check,
\* dst_chars and the zero case. next = TRUE: the while loop is entered.
bigint_to_dst_table_enter(big, table) ==
    IF table = <<>>
    THEN [next |-> FALSE, res |-> Err(DstEmpty, 0)]
    ELSE LET dst_chars == table
         IN  IF is_zero(big)
             THEN [next |-> FALSE, res |-> Ok(<<dst_chars[1]>>)]
             ELSE [next |-> TRUE, res |-> Ok(<<>>)]

\* One iteration of `while !big.is_zero() { rem = big.div_mod_small(dst_base);
\* out_chars.push(dst_chars[rem]) }` with dst_base = dst_chars.len(), followed
\* by the loop test; on exit out_chars is reversed and returned.
bigint_to_dst_table_iter(big, table, out_chars) ==
    LET dst_chars == table
        dst_base == Len(dst_chars)
        d == div_mod_small(big, dst_base)
    IN  IF d.panic
        THEN [next |-> FALSE, res |-> Panic(DivZero), big |-> big, out |-> out_chars]
        ELSE IF d.rem + 1 > Len(dst_chars)
        THEN [next |-> FALSE, res |-> Panic("index out of bounds"),
              big |-> d.limbs, out |-> out_chars]
        ELSE LET out == Append(out_chars, dst_chars[d.rem + 1])
             IN  IF is_zero(d.limbs)
                 THEN [next |-> FALSE, res |-> Ok(Reverse(out)), big |-> d.limbs, out |-> out]
                 ELSE [next |-> TRUE, res |-> Ok(<<>>), big |-> d.limbs, out |-> out]

(***************************************************************************)
(* converter.rs: Converter::new, parse_to_bigint, bigint_to_dst_table      *)
(***************************************************************************)

NoConverter == [src_table |-> <<>>, dst_table |-> <<>>, src_map |-> EmptyMap, dst_chars |-> <<>>]

Range(s) == {s[i] : i \in 1..Len(s)}

\* Converter::new: the fields are built in the order written, src_map first.
Converter_new(src, dst) ==
    IF src = <<>>
    THEN [res |-> Panic(SrcEmpty), conv |-> NoConverter]
    ELSE LET m == InsertAll(src, 1, EmptyMap)
         IN  IF m.dup
             THEN [res |-> Panic(SrcDup), conv |-> NoConverter]
             ELSE IF dst = <<>>
             THEN [res |-> Panic(DstEmpty), conv |-> NoConverter]
             ELSE IF Cardinality(Range(dst)) # Len(dst)
             THEN [res |-> Panic(DstDup), conv |-> NoConverter]
             ELSE [res |-> Ok(<<>>),
                   conv |-> [src_table |-> src, dst_table |-> dst,
                             src_map |-> m.map, dst_chars |-> dst]]

RECURSIVE Converter_ParseLoop(_, _, _, _)
Converter_ParseLoop(inp, i, map, st) ==
    IF i > Len(inp)
    THEN [err |-> FALSE, ch |-> 0, big |-> st.big, turns |-> i - 1]
    ELSE IF inp[i] \notin DOMAIN map
    THEN [err |-> TRUE, ch |-> inp[i], big |-> st.big, turns |-> i - 1]
    ELSE Converter_ParseLoop(inp, i + 1, map,
             [st EXCEPT !.big = big_int_add_small(big_int_mul_small(st.big, st.base),
                                                  map[inp[i]])])

\* let src_base = self.src_table.chars().count() as u32
Converter_src_base(conv) == CharCount(conv.src_table)

Converter_parse_to_bigint(conv, inp) ==
    LET base == Converter_src_base(conv)
        p == Converter_ParseLoop(inp, 1, conv.src_map, [big |-> big_int_zero, base |-> base])
    IN  IF p.err
        THEN [res |-> Err(BadDigit, p.ch), big |-> p.big, base |-> base, turns |-> p.turns]
        ELSE [res |-> Ok(<<>>), big |-> p.big, base |-> base, turns |-> p.turns]

Converter_bigint_to_dst_table_enter(conv, big) ==
    IF conv.dst_table = <<>>
    THEN [next |-> FALSE, res |-> Err(DstEmpty, 0)]
    ELSE IF big_int_is_zero(big)
    THEN [next |-> FALSE, res |-> Ok(<<conv.dst_chars[1]>>)]
    ELSE [next |-> TRUE, res |-> Ok(<<>>)]

Converter_bigint_to_dst_table_iter(conv, big, out_chars) ==
    LET dst_base == Len(conv.dst_chars)
        d == big_int_div_mod_small(big, dst_base)
    IN  IF d.panic
        THEN [next |-> FALSE, res |-> Panic(DivZero), big |-> big, out |-> out_chars]
        ELSE IF d.rem + 1 > Len(conv.dst_chars)
        THEN [next |-> FALSE, res |-> Panic("index out of bounds"),
              big |-> d.limbs, out |-> out_chars]
        ELSE LET out == Append(out_chars, conv.dst_chars[d.rem + 1])
             IN  IF big_int_is_zero(d.limbs)
                 THEN [next |-> FALSE, res |-> Ok(Reverse(out)), big |-> d.limbs, out |-> out]
                 ELSE [next |-> TRUE, res |-> Ok(<<>>), big |-> d.limbs, out |-> out]

(***************************************************************************)
(* The state machine                                                       *)
(***************************************************************************)

None == [kind |-> "None", msg |-> "", ch |-> 0, out |-> <<>>]

\* The arguments of a call; leg tells the caller's calls apart: its first call,
\* the conversion back of the first output, or the input with a zero-digit more.
Call(inp, src, dst, leg) == [input |-> inp, src_table |-> src, dst_table |-> dst, leg |-> leg]

\* The record of a call that has returned: its arguments, the base its parse
\* step passed to mul_small, the number of times it did, the magnitude it
\* parsed, and what it returned.
Returned(call, parse, res) ==
    [input |-> call.input, src_table |-> call.src_table, dst_table |-> call.dst_table,
     leg |-> call.leg, base |-> parse.base, turns |-> parse.turns, parsed |-> parse.big,
     res |-> res]

NotParsed == [base |-> 0, big |-> <<0>>, turns |-> 0]

\* No Converter is shared by concurrent calls.
NoThreads == shared = NoConverter /\ fwd = <<>> /\ back = <<>>

\* No BigInt is operated on its own.
NoBigInt ==
    b_kind = "none" /\ b_limbs = <<>> /\ b_ref = <<>> /\ b_last = <<>> /\ b_steps = 0

Init ==
    /\ input \in Strs(MaxInputLen)
    /\ src_table \in Strs(MaxTableLen)
    /\ dst_table \in Strs(MaxTableLen)
    /\ l_pc = "call"
    /\ l_call = Call(input, src_table, dst_table, "first")
    /\ l_parse = NotParsed
    /\ l_big = zero
    /\ l_out = <<>>
    /\ l_ret = <<>>
    /\ c_pc = "new"
    /\ c_conv = NoConverter
    /\ c_new = None
    /\ c_parse = NotParsed
    /\ c_big = big_int_zero
    /\ c_out = <<>>
    /\ c_ret = <<>>
    /\ NoThreads
    /\ NoBigInt

scenario == <<input, src_table, dst_table>>
lib_vars == <<l_pc, l_call, l_parse, l_big, l_out, l_ret>>
conv_vars == <<c_pc, c_conv, c_new, c_parse, c_big, c_out, c_ret>>
threads_vars == <<shared, fwd, back>>
bigint_vars == <<b_kind, b_limbs, b_ref, b_last, b_steps>>

\* convert_base(input, src_table, dst_table) up to the render loop.
LibConvertBase ==
    /\ l_pc = "call"
    /\ c_pc # "render"
    /\ LET p == parse_to_bigint(l_call.input, l_call.src_table)
           e == bigint_to_dst_table_enter(p.big, l_call.dst_table)
           parse == [base |-> p.base, big |-> p.big, turns |-> p.turns]
       IN  /\ l_parse' = parse
           /\ l_big' = p.big
           /\ l_out' = <<>>
           /\ IF p.res.kind = "Err"
              THEN /\ l_pc' = "done"
                   /\ l_ret' = Append(l_ret, Returned(l_call, parse, p.res))
              ELSE IF ~e.next
              THEN /\ l_pc' = "done"
                   /\ l_ret' = Append(l_ret, Returned(l_call, parse, e.res))
              ELSE /\ l_pc' = "render"
                   /\ l_ret' = l_ret
    /\ UNCHANGED <<l_call, scenario, conv_vars,
                   threads_vars, bigint_vars>>

\* One iteration of the render loop of convert_base.
LibRender ==
    /\ l_pc = "render"
    /\ Len(l_out) < MaxOut
    /\ LET r == bigint_to_dst_table_iter(l_big, l_call.dst_table, l_out)
       IN  /\ l_big' = r.big
           /\ l_out' = r.out
           /\ IF r.next
              THEN /\ l_pc' = "render"
                   /\ l_ret' = l_ret
              ELSE /\ l_pc' = "done"
                   /\ l_ret' = Append(l_ret, Returned(l_call, l_parse, r.res))
    /\ UNCHANGED <<l_call, l_parse, scenario, conv_vars,
                   threads_vars, bigint_vars>>

\* The caller converts the output of its first call back:
\* convert_base(out, dst_table, src_table).
LibCallBack ==
    /\ l_pc = "done"
    /\ Len(l_ret) = 1
    /\ l_ret[1].res.kind = "Ok"
    /\ l_pc' = "call"
    /\ l_call' = Call(l_ret[1].res.out, dst_table, src_table, "back")
    /\ UNCHANGED <<l_parse, l_big, l_out, l_ret, scenario, conv_vars,
                   threads_vars, bigint_vars>>

\* The caller converts its input again with one more leading zero-digit.
LibCallPadded ==
    /\ l_pc = "done"
    /\ Len(l_ret) = 1
    /\ src_table # <<>>
    /\ l_pc' = "call"
    /\ l_call' = Call(<<src_table[1]>> \o input, src_table, dst_table, "padded")
    /\ UNCHANGED <<l_parse, l_big, l_out, l_ret, scenario, conv_vars,
                   threads_vars, bigint_vars>>

\* Converter::new(src_table, dst_table)
ConverterNew ==
    /\ c_pc = "new"
    /\ LET n == Converter_new(src_table, dst_table)
       IN  /\ c_new' = n.res
           /\ c_conv' = n.conv
           /\ c_pc' = IF n.res.kind = "Ok" THEN "call" ELSE "done"
    /\ UNCHANGED <<c_parse, c_big, c_out, c_ret, scenario, lib_vars,
                   threads_vars, bigint_vars>>

\* converter.convert(input) up to the render loop.
ConverterConvert ==
    /\ c_pc = "call"
    /\ l_pc # "render"
    /\ LET p == Converter_parse_to_bigint(c_conv, input)
           e == Converter_bigint_to_dst_table_enter(c_conv, p.big)
           parse == [base |-> p.base, big |-> p.big, turns |-> p.turns]
           call == Call(input, c_conv.src_table, c_conv.dst_table, "first")
       IN  /\ c_parse' = parse
           /\ c_big' = p.big
           /\ c_out' = <<>>
           /\ IF p.res.kind = "Err"
              THEN /\ c_pc' = "done"
                   /\ c_ret' = Append(c_ret, Returned(call, parse, p.res))
              ELSE IF ~e.next
              THEN /\ c_pc' = "done"
                   /\ c_ret' = Append(c_ret, Returned(call, parse, e.res))
              ELSE /\ c_pc' = "render"
                   /\ c_ret' = c_ret
    /\ UNCHANGED <<c_conv, c_new, scenario, lib_vars,
                   threads_vars, bigint_vars>>

\* One iteration of the render loop of Converter::convert.
ConverterRender ==
    /\ c_pc = "render"
    /\ Len(c_out) < MaxOut
    /\ LET r == Converter_bigint_to_dst_table_iter(c_conv, c_big, c_out)
           call == Call(input, c_conv.src_table, c_conv.dst_table, "first")
       IN  /\ c_big' = r.big
           /\ c_out' = r.out
           /\ IF r.next
              THEN /\ c_pc' = "render"
                   /\ c_ret' = c_ret
              ELSE /\ c_pc' = "done"
                   /\ c_ret' = Append(c_ret, Returned(call, c_parse, r.res))
    /\ UNCHANGED <<c_conv, c_new, c_parse, scenario, lib_vars,
                   threads_vars, bigint_vars>>

Next ==
    \/ LibConvertBase
    \/ LibRender
    \/ LibCallBack
    \/ LibCallPadded
    \/ ConverterNew
    \/ ConverterConvert
    \/ ConverterRender

Spec == Init /\ [][Next]_vars

(***************************************************************************)
(* Wide naturals: the values of u32, u64 and u128 expressions, which go     *)
(* beyond the integers of the model checker.  A wide natural is the        *)
(* little-endian sequence of its digits in base WideBase, without a most   *)
(* significant zero digit; zero is the empty sequence.                     *)
(***************************************************************************)

WideBase == 10000

RECURSIVE Wide(_)
\* The wide natural of a natural number.
Wide(n) == IF n = 0 THEN <<>> ELSE <<n % WideBase>> \o Wide(n \div WideBase)

RECURSIVE WTrim(_)
WTrim(a) ==
    IF a # <<>> /\ a[Len(a)] = 0 THEN WTrim(SubSeq(a, 1, Len(a) - 1)) ELSE a

WDigit(a, i) == IF i <= Len(a) THEN a[i] ELSE 0

WMax(m, n) == IF m >= n THEN m ELSE n

RECURSIVE WAddFrom(_, _, _, _)
WAddFrom(a, b, i, c) ==
    IF i > WMax(Len(a), Len(b))
    THEN IF c = 0 THEN <<>> ELSE <<c>>
    ELSE LET s == WDigit(a, i) + WDigit(b, i) + c
         IN  <<s % WideBase>> \o WAddFrom(a, b, i + 1, s \div WideBase)

\* a + b
WAdd(a, b) == WTrim(WAddFrom(a, b, 1, 0))

RECURSIVE WLessFrom(_, _, _)
WLessFrom(a, b, i) ==
    IF i < 1 THEN FALSE
    ELSE IF a[i] # b[i] THEN a[i] < b[i]
    ELSE WLessFrom(a, b, i - 1)

\* a < b
WLess(a, b) ==
    IF Len(a) # Len(b) THEN Len(a) < Len(b) ELSE WLessFrom(a, b, Len(a))

\* a <= b
WLeq(a, b) == ~WLess(b, a)

RECURSIVE WSubFrom(_, _, _, _)
WSubFrom(a, b, i, borrow) ==
    IF i > Len(a)
    THEN <<>>
    ELSE LET d == a[i] - WDigit(b, i) - borrow
         IN  IF d < 0
             THEN <<d + WideBase>> \o WSubFrom(a, b, i + 1, 1)
             ELSE <<d>> \o WSubFrom(a, b, i + 1, 0)

\* a - b, for b <= a
WSub(a, b) == WTrim(WSubFrom(a, b, 1, 0))

RECURSIVE WMulDigitFrom(_, _, _, _)
WMulDigitFrom(a, d, i, c) ==
    IF i > Len(a)
    THEN IF c = 0 THEN <<>> ELSE <<c>>
    ELSE LET p == a[i] * d + c
         IN  <<p % WideBase>> \o WMulDigitFrom(a, d, i + 1, p \div WideBase)

RECURSIVE WMul(_, _)
\* a * b
WMul(a, b) ==
    IF b = <<>>
    THEN <<>>
    ELSE WAdd(WTrim(WMulDigitFrom(a, b[1], 1, 0)), WTrim(<<0>> \o WMul(a, Tail(b))))

\* a * d for one digit d
WMulDigit(a, d) == WTrim(WMulDigitFrom(a, d, 1, 0))

RECURSIVE WQuotDigit(_, _, _, _)
\* The largest digit d in lo..hi with b * d <= r.
WQuotDigit(r, b, lo, hi) ==
    IF lo = hi
    THEN lo
    ELSE LET mid == (lo + hi + 1) \div 2
         IN  IF WLeq(WMulDigit(b, mid), r)
             THEN WQuotDigit(r, b, mid, hi)
             ELSE WQuotDigit(r, b, lo, mid - 1)

RECURSIVE WDivFrom(_, _, _, _)

\* The quotient digit d put above the digits of the rest of the division.
WDivPut(rest, d) == [q |-> Append(rest.q, d), r |-> rest.r]

\* Quotient digit d taken at place i, where cur stands: on with the places
\* below and what is left of cur.
WDivTake(a, b, i, cur, d) ==
    WDivPut(WDivFrom(a, b, i - 1, WSub(cur, WMulDigit(b, d))), d)

\* The quotient digit at place i, cur being the remainder so far followed by
\* digit i of a.
WDivPlace(a, b, i, cur) == WDivTake(a, b, i, cur, WQuotDigit(cur, b, 0, WideBase - 1))

\* Long division of the digits i, i-1, .., 1 of a by b, r being the remainder
\* of the digits above them.
WDivFrom(a, b, i, r) ==
    IF i < 1
    THEN [q |-> <<>>, r |-> r]
    ELSE WDivPlace(a, b, i, WTrim(<<a[i]>> \o r))

WDivTrim(d) == [q |-> WTrim(d.q), r |-> d.r]

\* The quotient q and the remainder r of a by b, for b > 0.
WDivMod(a, b) == WDivTrim(WDivFrom(a, b, Len(a), <<>>))

\* a / b and a % b of unsigned integers
WDiv(a, b) == WDivMod(a, b).q
WMod(a, b) == WDivMod(a, b).r

\* 2^32, 2^64 and 2^128: one more than u32::MAX, u64::MAX and u128::MAX.
Two32 == WMul(Wide(65536), Wide(65536))
Two64 == WMul(Two32, Two32)
Two128 == WMul(Two64, Two64)

(***************************************************************************)
(* BigInt over the whole range of its u32 limbs and arguments.  The text   *)
(* of zero, is_zero, normalize, mul_small, add_small and div_mod_small is  *)
(* the same in lib.rs and big_int.rs but for the modulus of limbs and      *)
(* carries (radix) and the type of the intermediates (width, the number of *)
(* its values), which the parameter ar holds.  A limb is a wide natural;   *)
(* flags collects what the arithmetic did to a value beyond its type.      *)
(***************************************************************************)

\* lib.rs: LIMB_RADIX as u128
LibArith == [radix |-> Wide(LIMB_RADIX), width |-> Two128]

\* big_int.rs with intermediates of the width of a limb.
BigIntArith_LimbWidth == [radix |-> WSub(Two32, <<1>>), width |-> Two32]

\* big_int.rs: LimbType::MAX as u64
BigIntArith == [radix |-> WSub(Two32, <<1>>), width |-> Two64]

\* The value of an expression of an unsigned type with `width` values whose
\* exact value is x: beyond the type a release build wraps (a debug build
\* panics at that point).
Checked(x, width) ==
    IF WLess(x, width)
    THEN [v |-> x, flags |-> {}]
    ELSE [v |-> WMod(x, width), flags |-> {"overflow"}]

\* x as u32
AsU32(x) ==
    IF WLess(x, Two32)
    THEN [v |-> x, flags |-> {}]
    ELSE [v |-> WMod(x, Two32), flags |-> {"truncated"}]

\* vec![0]
wide_zero == << <<>> >>

wide_is_zero(limbs) == Len(limbs) = 1 /\ limbs[1] = <<>>

\* A normalize that pops nothing.
wide_normalize_PopNothing(limbs) == limbs

RECURSIVE wide_normalize(_)
wide_normalize(limbs) ==
    IF Len(limbs) > 1 /\ limbs[Len(limbs)] = <<>>
    THEN wide_normalize(SubSeq(limbs, 1, Len(limbs) - 1))
    ELSE limbs

RECURSIVE wide_PushCarry(_, _, _, _)

\* limbs.push(limb); carry = q, and the loop again
wide_PushLimb(ar, limbs, limb, q, flags) ==
    wide_PushCarry(ar, Append(limbs, limb.v), q, flags \cup limb.flags)

\* d: carry / radix and carry % radix
wide_PushTurn(ar, limbs, d, flags) == wide_PushLimb(ar, limbs, AsU32(d.r), d.q, flags)

\* while carry > 0 { limbs.push((carry % radix) as u32); carry /= radix }
wide_PushCarry(ar, limbs, carry, flags) ==
    IF carry # <<>>
    THEN wide_PushTurn(ar, limbs, WDivMod(carry, ar.radix), flags)
    ELSE [limbs |-> limbs, flags |-> flags]

\* No loop over the carry that a sweep s left.
wide_PushAfter_DropCarry(ar, s) == [limbs |-> s.limbs, flags |-> s.flags]

\* The limbs and flags after the loop over the carry that a sweep s left.
wide_PushAfter(ar, s) == wide_PushCarry(ar, s.limbs, s.carry, s.flags)

RECURSIVE wide_MulSweep(_, _, _, _, _, _)

\* *limb = limb; carry = q, and the next limb
wide_MulStore(ar, limbs, i, small, limb, q, flags) ==
    wide_MulSweep(ar, [limbs EXCEPT ![i] = limb.v], i + 1, small, q, flags \cup limb.flags)

\* d: prod / radix and prod % radix
wide_MulSplit(ar, limbs, i, small, d, flags) ==
    wide_MulStore(ar, limbs, i, small, AsU32(d.r), d.q, flags)

\* prod: the value of limb * small + carry
wide_MulTurn(ar, limbs, i, small, prod, flags) ==
    wide_MulSplit(ar, limbs, i, small, WDivMod(prod.v, ar.radix), flags \cup prod.flags)

\* for limb in &mut limbs { prod = limb * small + carry; *limb = (prod % radix)
\* as u32; carry = prod / radix }, from limb i on
wide_MulSweep(ar, limbs, i, small, carry, flags) ==
    IF i > Len(limbs)
    THEN [limbs |-> limbs, carry |-> carry, flags |-> flags]
    ELSE wide_MulTurn(ar, limbs, i, small,
                      Checked(WAdd(WMul(limbs[i], small), carry), ar.width), flags)

wide_mul_small(ar, limbs, small) ==
    IF small = <<>> THEN [limbs |-> wide_zero, flags |-> {}]
    ELSE IF small = <<1>> THEN [limbs |-> limbs, flags |-> {}]
    ELSE wide_PushAfter(ar, wide_MulSweep(ar, limbs, 1, small, <<>>, {}))

RECURSIVE wide_AddSweep(_, _, _, _, _)

\* *limb = limb; carry = q, and the next limb
wide_AddStore(ar, limbs, i, limb, q, flags) ==
    wide_AddSweep(ar, [limbs EXCEPT ![i] = limb.v], i + 1, q, flags \cup limb.flags)

\* d: sum / radix and sum % radix
wide_AddSplit(ar, limbs, i, d, flags) ==
    wide_AddStore(ar, limbs, i, AsU32(d.r), d.q, flags)

\* sum: the value of limb + carry
wide_AddTurn(ar, limbs, i, sum, flags) ==
    wide_AddSplit(ar, limbs, i, WDivMod(sum.v, ar.radix), flags \cup sum.flags)

\* for limb in &mut limbs { if carry == 0 { break } sum = limb + carry; *limb =
\* (sum % radix) as u32; carry = sum / radix }, from limb i on
wide_AddSweep(ar, limbs, i, carry, flags) ==
    IF i > Len(limbs) \/ carry = <<>>
    THEN [limbs |-> limbs, carry |-> carry, flags |-> flags]
    ELSE wide_AddTurn(ar, limbs, i, Checked(WAdd(limbs[i], carry), ar.width), flags)

wide_add_small(ar, limbs, small) ==
    wide_PushAfter(ar, wide_AddSweep(ar, limbs, 1, small, {}))

RECURSIVE wide_DivSweep(_, _, _, _, _, _)

\* *limb = q; rem = r, and the next limb down
wide_DivStore(ar, limbs, i, small, q, r, flags) ==
    wide_DivSweep(ar, [limbs EXCEPT ![i] = q.v], i - 1, small, r, flags \cup q.flags)

\* d: v / small and v % small
wide_DivSplit(ar, limbs, i, small, d, flags) ==
    wide_DivStore(ar, limbs, i, small, AsU32(d.q), d.r, flags)

\* v: the value of rem * radix + limb
wide_DivTurn(ar, limbs, i, small, v, flags) ==
    wide_DivSplit(ar, limbs, i, small, WDivMod(v.v, small), flags \cup v.flags)

\* for limb in limbs.iter_mut().rev() { v = rem * radix + limb; q = (v / small)
\* as u32; rem = v % small; *limb = q }, from limb i down
wide_DivSweep(ar, limbs, i, small, rem, flags) ==
    IF i < 1
    THEN [limbs |-> limbs, rem |-> rem, flags |-> flags]
    ELSE wide_DivTurn(ar, limbs, i, small,
                      Checked(WAdd(WMul(rem, ar.radix), limbs[i]), ar.width), flags)

\* self.normalize(); rem as u32
wide_DivReturn(limbs, rem, flags) ==
    [panic |-> FALSE, limbs |-> wide_normalize(limbs), rem |-> rem.v,
     flags |-> flags \cup rem.flags]

\* s: the limbs and the remainder the sweep left
wide_DivAfter(s) == wide_DivReturn(s.limbs, AsU32(s.rem), s.flags)

\* The quotient limbs and the remainder, or a panic on a zero divisor.
wide_div_mod_small(ar, limbs, small) ==
    IF small = <<>>
    THEN [panic |-> TRUE, limbs |-> limbs, rem |-> <<>>, flags |-> {}]
    ELSE wide_DivAfter(wide_DivSweep(ar, limbs, Len(limbs), small, <<>>, {}))

(***************************************************************************)
(* converter.rs over the whole range of big_int.rs: one Converter shared   *)
(* by the convert calls of several threads, each call taken a turn of its  *)
(* loops at a time, and each thread converting its output back with        *)
(* inverse().                                                              *)
(***************************************************************************)

\* Cap on the length of out_chars in these calls.
MaxDigits == 70

\* The natural number of a wide natural below WideBase.
WNat(a) == IF a = <<>> THEN 0 ELSE a[1]

\* Converter::inverse
Converter_inverse(conv) == Converter_new(conv.dst_table, conv.src_table)

\* A call of convert: its argument, where it stands (pc, and i, the next
\* character of the input), its own BigInt and out_chars, and what it returned.
\* among: another call on the same Converter took a turn while this one was
\* under way.
NoCall ==
    [input |-> <<>>, pc |-> "none", i |-> 0, big |-> wide_zero, out |-> <<>>, res |-> None,
     among |-> FALSE]
NewCall(inp) ==
    [input |-> inp, pc |-> "parse", i |-> 1, big |-> wide_zero, out |-> <<>>, res |-> None,
     among |-> FALSE]

\* One turn of `for ch in input.chars()` of Converter::parse_to_bigint, with
\* src_base = self.src_table.chars().count() as u32.
wide_Converter_parse_turn(conv, call) ==
    LET src_base == Wide(CharCount(conv.src_table))
        ch == call.input[call.i]
    IN  IF ch \notin DOMAIN conv.src_map
        THEN [call EXCEPT !.pc = "done", !.res = Err(BadDigit, ch)]
        ELSE [call EXCEPT
                 !.i = @ + 1,
                 !.big = wide_add_small(BigIntArith,
                             wide_mul_small(BigIntArith, call.big, src_base).limbs,
                             Wide(conv.src_map[ch])).limbs]

\* The end of parse_to_bigint (Ok(big)) and Converter::bigint_to_dst_table up
\* to its loop.
wide_Converter_enter(conv, call) ==
    IF conv.dst_table = <<>>
    THEN [call EXCEPT !.pc = "done", !.res = Err(DstEmpty, 0)]
    ELSE IF wide_is_zero(call.big)
    THEN [call EXCEPT !.pc = "done", !.res = Ok(<<conv.dst_chars[1]>>)]
    ELSE [call EXCEPT !.pc = "render"]

\* out_chars.push(..), then the loop test; on exit out_chars is reversed and
\* returned.
wide_Converter_render_push(call, limbs, out) ==
    IF wide_is_zero(limbs)
    THEN [call EXCEPT !.pc = "done", !.big = limbs, !.out = out, !.res = Ok(Reverse(out))]
    ELSE [call EXCEPT !.big = limbs, !.out = out]

\* d: what big.div_mod_small(dst_base) did; self.dst_chars[rem as usize]
wide_Converter_render_rem(conv, call, d) ==
    IF d.panic
    THEN [call EXCEPT !.pc = "done", !.res = Panic(DivZero)]
    ELSE IF ~WLess(d.rem, Wide(Len(conv.dst_chars)))
    THEN [call EXCEPT !.pc = "done", !.big = d.limbs, !.res = Panic("index out of bounds")]
    ELSE wide_Converter_render_push(call, d.limbs,
                                    Append(call.out, conv.dst_chars[WNat(d.rem) + 1]))

\* One turn of `while !big.is_zero()` of Converter::bigint_to_dst_table with
\* dst_base = self.dst_chars.len() as u32.
wide_Converter_render_turn(conv, call) ==
    wide_Converter_render_rem(conv, call,
        wide_div_mod_small(BigIntArith, call.big, Wide(Len(conv.dst_chars))))

\* The next turn of a call of convert on Converter conv.
ConvertStep(conv, call) ==
    IF call.pc = "render" THEN wide_Converter_render_turn(conv, call)
    ELSE IF call.i <= Len(call.input) THEN wide_Converter_parse_turn(conv, call)
    ELSE wide_Converter_enter(conv, call)

\* A call that has a turn to take.
CanStep(call) ==
    call.pc = "parse" \/ (call.pc = "render" /\ Len(call.out) < MaxDigits)

\* Every call keeps the magnitude shared with the first thread's call.
OwnCall_SharedBig(calls, t) == [calls[t] EXCEPT !.big = calls[1].big]

\* The state of the call of thread t: `let mut big = BigInt::zero()` and
\* `let mut out_chars` are locals of the call.
OwnCall(calls, t) == calls[t]

\* Digit tables: the decimal and binary digits, a table whose zero-digit is
\* U+4F60, and a table of one character.
DecTable == [i \in 1..10 |-> 47 + i]
BinTable == <<48, 49>>
HanTable == <<20320, 48>>
UnaryTable == <<48>>

\* The string of the decimal digits ds.
Dec(ds) == [i \in 1..Len(ds) |-> 48 + ds[i]]

\* n times the character '1'.
Ones(n) == [i \in 1..n |-> 49]

\* 4294967294, 4294967295 = u32::MAX, 4294967296, and
\* 18446744065119617025 = u32::MAX^2.
LongDecimals ==
    { Dec(<<4, 2, 9, 4, 9, 6, 7, 2, 9, 4>>),
      Dec(<<4, 2, 9, 4, 9, 6, 7, 2, 9, 5>>),
      Dec(<<4, 2, 9, 4, 9, 6, 7, 2, 9, 6>>),
      Dec(<<1, 8, 4, 4, 6, 7, 4, 4, 0, 6, 5, 1, 1, 9, 6, 1, 7, 0, 2, 5>>) }

\* "10", "7", "0", "07", "" and a string with a character of no table.
ShortDecimals ==
    { Dec(<<1, 0>>), Dec(<<7>>), Dec(<<0>>), Dec(<<0, 7>>), <<>>, <<49, 97>> }

\* The tables of a Converter and the input of one call: values of one, two
\* and three limbs, a table of wide characters, and tables of one character.
InverseScenarios ==
    {[src |-> DecTable, dst |-> BinTable, ins |-> <<s>>] : s \in LongDecimals}
    \cup {[src |-> BinTable, dst |-> DecTable, ins |-> <<Ones(n)>>] : n \in {32, 33, 64}}
    \cup {[src |-> DecTable, dst |-> HanTable, ins |-> <<s>>] :
              s \in LongDecimals \cup ShortDecimals}
    \cup {[src |-> BinTable, dst |-> UnaryTable, ins |-> <<s>>] : s \in {<<48>>, <<49>>}}
    \cup {[src |-> UnaryTable, dst |-> DecTable, ins |-> <<<<48>>>>]}

\* The tables of the shared Converter and the input of each thread's call: two
\* threads, and three.
ThreadScenarios ==
    {[src |-> DecTable, dst |-> HanTable, ins |-> <<s, u>>] :
         s \in {Dec(<<4, 2, 9, 4, 9, 6, 7, 2, 9, 6>>)} \cup ShortDecimals,
         u \in {Dec(<<4, 2, 9, 4, 9, 6, 7, 2, 9, 5>>), Dec(<<7>>), <<>>, <<49, 97>>}}
    \cup {[src |-> DecTable, dst |-> HanTable,
           ins |-> <<Dec(<<1, 8, 4, 4, 6, 7, 4, 4, 0, 6, 5, 1, 1, 9, 6, 1, 7, 0, 2, 5>>),
                     Dec(<<1, 0>>)>>]}
    \cup {[src |-> BinTable, dst |-> DecTable, ins |-> <<Ones(33), Ones(32)>>]}
    \cup {[src |-> DecTable, dst |-> BinTable,
           ins |-> <<Dec(<<1, 0>>), Dec(<<7>>), Dec(<<0, 7>>)>>]}

\* The other entry points stand still.
NoConversion ==
    /\ input = <<>>
    /\ l_pc = "idle"
    /\ l_call = Call(<<>>, <<>>, <<>>, "first")
    /\ l_parse = NotParsed
    /\ l_big = zero
    /\ l_out = <<>>
    /\ l_ret = <<>>
    /\ c_pc = "idle"
    /\ c_conv = NoConverter
    /\ c_new = None
    /\ c_parse = NotParsed
    /\ c_big = big_int_zero
    /\ c_out = <<>>
    /\ c_ret = <<>>

\* Converter::new(src_table, dst_table), then one thread per input.
StartThreads(sc) ==
    /\ src_table = sc.src
    /\ dst_table = sc.dst
    /\ shared = Converter_new(sc.src, sc.dst).conv
    /\ fwd = [t \in DOMAIN sc.ins |-> NewCall(sc.ins[t])]
    /\ back = [t \in DOMAIN sc.ins |-> [conv |-> NoConverter, call |-> NoCall]]
    /\ NoConversion
    /\ NoBigInt

InverseInit == \E sc \in InverseScenarios : StartThreads(sc)

ThreadsInit == \E sc \in ThreadScenarios : StartThreads(sc)

\* A call that has taken a turn and has not returned.
Underway(call) == call.pc = "render" \/ (call.pc = "parse" /\ call.i > 1)

\* A turn of shared.convert(input) in thread t.
ForwardStep(t) ==
    /\ t \in DOMAIN fwd
    /\ CanStep(fwd[t])
    /\ fwd' = [u \in DOMAIN fwd |->
                  IF u = t THEN ConvertStep(shared, OwnCall(fwd, t))
                  ELSE IF Underway(fwd[u]) THEN [fwd[u] EXCEPT !.among = TRUE]
                  ELSE fwd[u]]
    /\ UNCHANGED <<shared, back, scenario, lib_vars, conv_vars, bigint_vars>>

\* Thread t, its call returned: shared.inverse(), and the start of
\* inverse.convert(out).
CallInverse(t) ==
    /\ t \in DOMAIN fwd
    /\ fwd[t].pc = "done"
    /\ fwd[t].res.kind = "Ok"
    /\ back[t].call.pc = "none"
    /\ LET n == Converter_inverse(shared)
       IN  /\ n.res.kind = "Ok"
           /\ back' = [back EXCEPT ![t] = [conv |-> n.conv,
                                          call |-> NewCall(fwd[t].res.out)]]
    /\ UNCHANGED <<shared, fwd, scenario, lib_vars, conv_vars, bigint_vars>>

\* A turn of inverse.convert(out) in thread t.
BackStep(t) ==
    /\ t \in DOMAIN fwd
    /\ CanStep(back[t].call)
    /\ back' = [back EXCEPT ![t].call = ConvertStep(back[t].conv, back[t].call)]
    /\ UNCHANGED <<shared, fwd, scenario, lib_vars, conv_vars, bigint_vars>>

\* The threads there may be.
Threads == {1, 2, 3}

ThreadsNext ==
    \/ \E t \in Threads : ForwardStep(t)
    \/ \E t \in Threads : CallInverse(t)
    \/ \E t \in Threads : BackStep(t)

ConcurrentNext == \E t \in Threads : ForwardStep(t)

\* Calls of convert on one Converter, their turns in any order.
ThreadsSpec == ThreadsInit /\ [][ConcurrentNext]_vars

\* One call of convert and the conversion back of its output.
InverseSpec == InverseInit /\ [][ThreadsNext]_vars

(***************************************************************************)
(* A BigInt on its own: BigInt::zero(), then calls of mul_small, add_small *)
(* and div_mod_small with arguments of the whole u32 range, in lib.rs and  *)
(* in big_int.rs.  b_ref is the natural number the calls compute, kept by  *)
(* exact arithmetic; b_last is the last call.                              *)
(***************************************************************************)

\* Cap on the number of calls.
MaxOps == 4

\* u32::MAX
U32Max == WSub(Two32, <<1>>)

Arith(kind) == IF kind = "lib" THEN LibArith ELSE BigIntArith

\* The arguments of the calls: 0, 1, a small number, the greatest limb, u32::MAX.
Smalls(ar) == {<<>>, <<1>>, <<7>>, WSub(ar.radix, <<1>>), U32Max}

AllSmalls == Smalls(LibArith) \cup Smalls(BigIntArith)

\* A call and what it did: the limbs before it, the remainder returned, the
\* flags of its arithmetic, whether it panicked.
Op(name, small, rem, flags, panic) ==
    [op |-> name, small |-> small, before |-> b_limbs, rem |-> rem, flags |-> flags,
     panic |-> panic]

BigIntInit ==
    /\ src_table = <<>>
    /\ dst_table = <<>>
    /\ NoConversion
    /\ NoThreads
    /\ b_kind \in {"lib", "big_int"}
    /\ b_limbs = wide_zero
    /\ b_ref = <<>>
    /\ b_last = [op |-> "zero", small |-> <<>>, before |-> wide_zero, rem |-> <<>>,
                 flags |-> {}, panic |-> FALSE]
    /\ b_steps = 0

\* The BigInt is there, the program has not panicked, and small is an argument
\* for this BigInt.
CanOperate(small) ==
    /\ b_kind # "none"
    /\ ~b_last.panic
    /\ b_steps < MaxOps
    /\ small \in Smalls(Arith(b_kind))

\* r: what mul_small left
Multiplied(small, r) ==
    /\ b_limbs' = r.limbs
    /\ b_last' = Op("mul_small", small, <<>>, r.flags, FALSE)

\* r: what add_small left
Added(small, r) ==
    /\ b_limbs' = r.limbs
    /\ b_last' = Op("add_small", small, <<>>, r.flags, FALSE)

\* r: what div_mod_small left
Divided(small, r) ==
    /\ b_limbs' = r.limbs
    /\ b_last' = Op("div_mod_small", small, r.rem, r.flags, r.panic)

\* big.mul_small(small)
MulSmall(small) ==
    /\ CanOperate(small)
    /\ Multiplied(small, wide_mul_small(Arith(b_kind), b_limbs, small))
    /\ b_ref' = WMul(b_ref, small)
    /\ b_steps' = b_steps + 1
    /\ UNCHANGED <<b_kind, scenario, lib_vars, conv_vars, threads_vars>>

\* big.add_small(small)
AddSmall(small) ==
    /\ CanOperate(small)
    /\ Added(small, wide_add_small(Arith(b_kind), b_limbs, small))
    /\ b_ref' = WAdd(b_ref, small)
    /\ b_steps' = b_steps + 1
    /\ UNCHANGED <<b_kind, scenario, lib_vars, conv_vars, threads_vars>>

\* big.div_mod_small(small)
DivModSmall(small) ==
    /\ CanOperate(small)
    /\ Divided(small, wide_div_mod_small(Arith(b_kind), b_limbs, small))
    /\ b_ref' = IF small = <<>> THEN b_ref ELSE WDiv(b_ref, small)
    /\ b_steps' = b_steps + 1
    /\ UNCHANGED <<b_kind, scenario, lib_vars, conv_vars, threads_vars>>

BigIntNext ==
    \/ \E small \in AllSmalls : MulSmall(small)
    \/ \E small \in AllSmalls : AddSmall(small)
    \/ \E small \in AllSmalls : DivModSmall(small)

\* Any calls of the three operations on a BigInt that starts at zero.
BigIntSpec == BigIntInit /\ [][BigIntNext]_vars

(***************************************************************************)
(* convert_base of lib.rs with a destination table of any length a &str    *)
(* of a 64-bit build can have.  Such a table is held by its runs: a run is *)
(* one character and the number of times it is repeated, a wide natural.   *)
(* The magnitude is the BigInt of lib.rs over wide naturals.               *)
(***************************************************************************)

Run(ch, n) == [ch |-> ch, n |-> n]

\* dst_table.chars().collect::<Vec<char>>().len(), a usize
RECURSIVE RunsCount(_)
RunsCount(runs) ==
    IF runs = <<>> THEN <<>> ELSE WAdd(runs[1].n, RunsCount(Tail(runs)))

\* No character: the index is out of bounds.
NoChar == -1

\* dst_chars[idx]
RECURSIVE RunsAt(_, _)
RunsAt(runs, idx) ==
    IF runs = <<>> THEN NoChar
    ELSE IF WLess(idx, runs[1].n) THEN runs[1].ch
    ELSE RunsAt(Tail(runs), WSub(idx, runs[1].n))

\* let dst_base = dst_chars.len() as u32
runs_dst_base(runs) == AsU32(RunsCount(runs)).v

\* The limbs parse_to_bigint returns, as wide naturals.
WideLimbs(limbs) == [i \in DOMAIN limbs |-> Wide(limbs[i])]

\* bigint_to_dst_table before its loop, the table held by its runs.
runs_bigint_to_dst_table_enter(big, runs) ==
    IF runs = <<>>
    THEN [next |-> FALSE, res |-> Err(DstEmpty, 0)]
    ELSE IF wide_is_zero(big)
    THEN [next |-> FALSE, res |-> Ok(<<RunsAt(runs, <<>>)>>)]
    ELSE [next |-> TRUE, res |-> Ok(<<>>)]

\* out_chars.push(ch), then the loop test
runs_bigint_to_dst_table_push(limbs, out) ==
    IF wide_is_zero(limbs)
    THEN [next |-> FALSE, res |-> Ok(Reverse(out)), big |-> limbs, out |-> out]
    ELSE [next |-> TRUE, res |-> Ok(<<>>), big |-> limbs, out |-> out]

\* ch: dst_chars[rem as usize] for the remainder of d
runs_bigint_to_dst_table_index(d, out_chars, ch) ==
    IF ch = NoChar
    THEN [next |-> FALSE, res |-> Panic("index out of bounds"),
          big |-> d.limbs, out |-> out_chars]
    ELSE runs_bigint_to_dst_table_push(d.limbs, Append(out_chars, ch))

\* One iteration of the loop of bigint_to_dst_table; d: what
\* big.div_mod_small(dst_base) left.
runs_bigint_to_dst_table_iter(big, runs, out_chars, d) ==
    IF d.panic
    THEN [next |-> FALSE, res |-> Panic(DivZero), big |-> big, out |-> out_chars]
    ELSE runs_bigint_to_dst_table_index(d, out_chars, RunsAt(runs, d.rem))

\* Decimal inputs of up to two digits.
LongInputs == {<<>>} \cup {Dec(<<a>>) : a \in 0..9} \cup {Dec(<<a, b>>) : a, b \in 0..9}

\* Destination tables: "01"; 2^32 times '0'; '0' and 2^32 times '1'; 2^32 times
\* '0' and twice '1'.
LongTables ==
    {<<Run(48, <<1>>), Run(49, <<1>>)>>,
     <<Run(48, Two32)>>,
     <<Run(48, <<1>>), Run(49, Two32)>>,
     <<Run(48, Two32), Run(49, <<2>>)>>}

LongTableInit ==
    /\ input \in LongInputs
    /\ src_table = DecTable
    /\ dst_table \in LongTables
    /\ l_pc = "call"
    /\ l_call = Call(input, src_table, dst_table, "first")
    /\ l_parse = NotParsed
    /\ l_big = wide_zero
    /\ l_out = <<>>
    /\ l_ret = <<>>
    /\ c_pc = "idle"
    /\ c_conv = NoConverter
    /\ c_new = None
    /\ c_parse = NotParsed
    /\ c_big = big_int_zero
    /\ c_out = <<>>
    /\ c_ret = <<>>
    /\ NoThreads
    /\ NoBigInt

\* p: what parse_to_bigint returned; e: what the render step did before its loop
LongParsed(p, e) ==
    /\ l_parse' = [base |-> p.base, big |-> p.big, turns |-> p.turns]
    /\ l_big' = WideLimbs(p.big)
    /\ l_out' = <<>>
    /\ IF p.res.kind = "Err"
       THEN /\ l_pc' = "done"
            /\ l_ret' = Append(l_ret, Returned(l_call,
                                [base |-> p.base, big |-> p.big, turns |-> p.turns], p.res))
       ELSE IF ~e.next
       THEN /\ l_pc' = "done"
            /\ l_ret' = Append(l_ret, Returned(l_call,
                                [base |-> p.base, big |-> p.big, turns |-> p.turns], e.res))
       ELSE /\ l_pc' = "render"
            /\ l_ret' = l_ret

LongEntered(p) ==
    LongParsed(p, runs_bigint_to_dst_table_enter(WideLimbs(p.big), l_call.dst_table))

\* convert_base(input, src_table, dst_table) up to the render loop.
LongConvertBase ==
    /\ l_pc = "call"
    /\ LongEntered(parse_to_bigint(l_call.input, l_call.src_table))
    /\ UNCHANGED <<l_call, scenario, conv_vars, threads_vars, bigint_vars>>

\* r: what an iteration of the render loop left
LongRendered(r) ==
    /\ l_big' = r.big
    /\ l_out' = r.out
    /\ IF r.next
       THEN /\ l_pc' = "render"
            /\ l_ret' = l_ret
       ELSE /\ l_pc' = "done"
            /\ l_ret' = Append(l_ret, Returned(l_call, l_parse, r.res))

\* One iteration of the render loop of convert_base.
LongRender ==
    /\ l_pc = "render"
    /\ Len(l_out) < MaxOut
    /\ LongRendered(runs_bigint_to_dst_table_iter(l_big, l_call.dst_table, l_out,
           wide_div_mod_small(LibArith, l_big, runs_dst_base(l_call.dst_table))))
    /\ UNCHANGED <<l_call, l_parse, scenario, conv_vars, threads_vars, bigint_vars>>

LongTableNext ==
    \/ LongConvertBase
    \/ LongRender

\* Calls of convert_base with destination tables of up to 2^32 + 2 characters.
LongTableSpec == LongTableInit /\ [][LongTableNext]_vars

(***************************************************************************)
(* Reference notions the properties are stated with                        *)
(***************************************************************************)

HasDuplicate(t) == Cardinality(Range(t)) # Len(t)

\* A valid table: non-empty, no repeated character.
ValidTable(t) == t # <<>> /\ ~HasDuplicate(t)

OverTable(s, t) == \A i \in 1..Len(s) : s[i] \in Range(t)

\* The digit value of character c in the valid table t: its index from 0.
DigitOf(c, t) == (CHOOSE i \in 1..Len(t) : t[i] = c) - 1

Digits(s, t) == [i \in 1..Len(s) |-> DigitOf(s[i], t)]

RECURSIVE Pow(_, _)
Pow(b, e) == IF e = 0 THEN 1 ELSE b * Pow(b, e - 1)

RECURSIVE PolySum(_, _, _)
PolySum(ds, base, i) ==
    IF i > Len(ds) THEN 0 ELSE ds[i] * Pow(base, Len(ds) - i) + PolySum(ds, base, i + 1)

\* sum over i of digit_i * base^(n-1-i), digits indexed from 0 in the claim
PolyValue(ds, base) == PolySum(ds, base, 1)

\* The integer a string denotes as a positional numeral over table t.
NumeralValue(s, t) == PolyValue(Digits(s, t), Len(t))

RECURSIVE RefDigits(_, _)
\* The digits of v in base b >= 2, most significant first, <<0>> for zero.
RefDigits(v, b) ==
    IF v < b THEN <<v>> ELSE Append(RefDigits(v \div b, b), v % b)

LibReturned == Range(l_ret)
ConverterReturned == Range(c_ret)
AllReturned == LibReturned \cup ConverterReturned

ValidCall(r) ==
    ValidTable(r.src_table) /\ ValidTable(r.dst_table) /\ OverTable(r.input, r.src_table)

(***************************************************************************)
(* Properties                                                              *)
(***************************************************************************)

\* C1: whenever convert_base returns for valid tables and an input over the
\* source table, it returns Ok(out) and out, read as a numeral over the
\* destination table, denotes sum_i digit_i * n^(len-1-i) with n the number of
\* CHARACTERS of the source table.
C1_ValuePreserved ==
    \A r \in LibReturned :
        ValidCall(r) =>
            /\ r.res.kind = "Ok"
            /\ OverTable(r.res.out, r.dst_table)
            /\ NumeralValue(r.res.out, r.dst_table)
                   = PolyValue(Digits(r.input, r.src_table), Len(r.src_table))

\* A non-empty string without a leading zero-digit, or the zero-digit alone.
CanonicalOver(s, t) == s # <<>> /\ (s = <<t[1]>> \/ s[1] # t[1])

\* C2: for valid tables A, B and a non-empty string s over A without a leading
\* zero-digit (or the zero-digit alone), the conversion back of
\* convert_base(s, A, B) returns s.
C2_RoundTrip ==
    \A r \in LibReturned :
        ( /\ r.leg = "back"
          /\ ValidTable(src_table) /\ ValidTable(dst_table)
          /\ OverTable(input, src_table)
          /\ CanonicalOver(input, src_table) )
        => r.res = Ok(input)

\* The order of magnitudes in canonical form: fewer limbs, or the same number
\* and a smaller limb at the most significant place where they differ.
BigLess(a, b) ==
    \/ Len(a) < Len(b)
    \/ /\ Len(a) = Len(b)
       /\ \E i \in 1..Len(a) :
              /\ a[i] < b[i]
              /\ \A j \in (i + 1)..Len(a) : a[j] = b[j]

\* C3: the render loop ends: every iteration of
\* `while !big.is_zero() { big.div_mod_small(dst_base) }` leaves a strictly
\* smaller magnitude, in convert_base and in Converter::convert.
C3_RenderTerminates ==
    [][ /\ (l_pc = "render" /\ l_out' # l_out => BigLess(l_big', l_big))
        /\ (c_pc = "render" /\ c_out' # c_out => BigLess(c_big', c_big)) ]_vars

\* C4: the base the parse step passes to mul_small is the number of characters
\* of the source table, whatever their width in bytes, so the digit values of
\* the output are those of the value the input digits denote in that base.
C4_BaseIsCharCount ==
    \A r \in AllReturned :
        ValidCall(r) /\ r.input # <<>> =>
            /\ r.base = CharCount(r.src_table)
            /\ r.res.kind = "Ok"
            /\ Digits(r.res.out, r.dst_table)
                   = RefDigits(PolyValue(Digits(r.input, r.src_table), Len(r.src_table)),
                               Len(r.dst_table))

InvalidTableMsgs == {SrcEmpty, SrcDup, DstEmpty, DstDup}

\* What a caller can tell of an outcome: the output of a success, or the kind
\* of the failure (a panic counted as a failure of the kind its message names).
Outcome(res) ==
    IF res.kind = "Ok" THEN <<"Ok", res.out>>
    ELSE IF res.msg \in InvalidTableMsgs THEN <<"InvalidTable", <<>>>>
    ELSE IF res.msg = BadDigit THEN <<"InvalidDigit", <<>>>>
    ELSE <<"Other", <<>>>>

Failed(res) == res.kind \in {"Err", "Panic"}

\* The outcome of Converter::new(src_table, dst_table).convert(input), once known.
ConverterDone == c_pc = "done"
ConverterResult == IF c_new.kind = "Ok" THEN c_ret[1].res ELSE c_new

\* C5: convert_base(input, src, dst) and Converter::new(src, dst).convert(input)
\* have the same outcome: the same output, or a failure of the same kind.
C5_SameOutcome ==
    (ConverterDone /\ Len(l_ret) >= 1) => Outcome(l_ret[1].res) = Outcome(ConverterResult)

\* C6: whatever the input, convert_base fails with an invalid-table error when
\* src is empty, dst is empty, or src repeats a character.
C6_TableErrorWhateverInput ==
    \A r \in LibReturned :
        (r.src_table = <<>> \/ r.dst_table = <<>> \/ HasDuplicate(r.src_table))
        => r.res.kind = "Err" /\ r.res.msg \in InvalidTableMsgs

\* C7: a destination table that repeats a character is rejected, by
\* Converter::new and by convert_base: the call fails, no output is produced,
\* and with a valid source table and an input over it the failure is the one
\* that names the destination table and the duplicate rule.
C7_DstDuplicateRejected ==
    /\ \A r \in LibReturned :
           HasDuplicate(r.dst_table) =>
               /\ Failed(r.res)
               /\ (ValidTable(r.src_table) /\ OverTable(r.input, r.src_table))
                      => r.res.msg = DstDup
    /\ (c_new.kind # "None" /\ HasDuplicate(dst_table)) =>
           /\ Failed(c_new)
           /\ ValidTable(src_table) => c_new.msg = DstDup

\* The leftmost character of s that is not in table t.
FirstAbsent(s, t) ==
    LET i == CHOOSE k \in 1..Len(s) :
                 s[k] \notin Range(t) /\ \A j \in 1..(k - 1) : s[j] \in Range(t)
    IN  s[i]

\* C8: with valid tables a conversion that returns fails exactly when the input
\* has a character that is not in the source table, and its error is the
\* invalid-digit error naming the leftmost such character.
C8_InvalidDigitLeftmost ==
    \A r \in AllReturned :
        (ValidTable(r.src_table) /\ ValidTable(r.dst_table)) =>
            /\ Failed(r.res) <=> ~OverTable(r.input, r.src_table)
            /\ Failed(r.res) => r.res = Err(BadDigit, FirstAbsent(r.input, r.src_table))

\* A call with valid tables has returned the error naming its first character,
\* which is absent from the source table, though a different absent character
\* follows it.
C8_Witness ==
    \E r \in AllReturned :
        /\ ValidTable(r.src_table) /\ ValidTable(r.dst_table)
        /\ Len(r.input) = 2
        /\ r.input[1] \notin Range(r.src_table)
        /\ r.input[2] \notin Range(r.src_table)
        /\ r.input[2] # r.input[1]
        /\ r.res = Err(BadDigit, r.input[1])

\* C9: no public operation panics; every failure is an Err value.
C9_NoPanic ==
    /\ c_new.kind # "Panic"
    /\ \A r \in AllReturned : r.res.kind # "Panic"

AllZeroDigits(s, t) == \A i \in 1..Len(s) : s[i] = t[1]

\* C10: for valid tables and an input over the source table, the output is the
\* destination zero-digit alone when the input holds only source zero-digits,
\* and otherwise a non-empty string that does not start with the destination
\* zero-digit; one more leading zero-digit in the input leaves it unchanged.
C10_CanonicalOutput ==
    /\ \A r \in AllReturned :
           ValidCall(r) =>
               /\ r.res.kind = "Ok"
               /\ AllZeroDigits(r.input, r.src_table) => r.res.out = <<r.dst_table[1]>>
               /\ ~AllZeroDigits(r.input, r.src_table)
                      => r.res.out # <<>> /\ r.res.out[1] # r.dst_table[1]
    /\ \A r \in LibReturned :
           (r.leg = "padded" /\ ValidCall(r)) => r.res = l_ret[1].res

\* A call whose input starts with a zero-digit and is not zero has returned,
\* and so has the call with one more zero-digit in front.
C10_Witness ==
    /\ Len(l_ret) = 2
    /\ l_ret[2].leg = "padded"
    /\ ValidCall(l_ret[2])
    /\ Len(input) = 2 /\ input[1] = src_table[1] /\ input[2] # src_table[1]
    /\ l_ret[2].res.kind = "Ok"
    /\ l_ret[2].res.out # <<>>
    /\ l_ret[2].res.out[1] # dst_table[1]
    /\ l_ret[1].res = l_ret[2].res

RECURSIVE StripLeading(_, _)
\* s without its leading occurrences of character z.
StripLeading(s, z) ==
    IF s # <<>> /\ s[1] = z THEN StripLeading(Tail(s), z) ELSE s

\* s with its leading zero-digits removed, or the zero-digit alone.
StripZeroDigits(s, t) ==
    IF AllZeroDigits(s, t) THEN <<t[1]>> ELSE StripLeading(s, t[1])

\* C11: for a valid table T and a non-empty string s over T,
\* convert_base(s, T, T) returns s without its leading zero-digits, every other
\* character kept in order, or the zero-digit alone when s holds nothing else.
C11_SelfConversion ==
    \A r \in LibReturned :
        ( /\ r.src_table = r.dst_table
          /\ ValidTable(r.src_table)
          /\ r.input # <<>>
          /\ OverTable(r.input, r.src_table) )
        => r.res = Ok(StripZeroDigits(r.input, r.src_table))

\* The order of magnitudes in canonical form over wide limbs.
WideBigLess(a, b) ==
    \/ Len(a) < Len(b)
    \/ /\ Len(a) = Len(b)
       /\ \E i \in 1..Len(a) :
              /\ WLess(a[i], b[i])
              /\ \A j \in (i + 1)..Len(a) : a[j] = b[j]

\* A turn of the render loop of a call leaves it a strictly smaller magnitude.
RenderAdvances(before, after) ==
    (before.pc = "render" /\ after # before) => WideBigLess(after.big, before.big)

\* C12: for a Converter c built from valid tables A and B and a string s over
\* A without a leading zero-digit (or the zero-digit alone),
\* c.inverse().convert(c.convert(s)) returns s, with the limb arithmetic of
\* big_int.rs, values of more than one limb included: c.inverse() converts
\* from B to A, the conversion back, once it has returned, has returned s, and
\* every turn of a render loop on the way brings its call nearer to its end.
C12_InverseRoundTrip ==
    [][ \A t \in DOMAIN fwd :
            ( /\ ValidTable(src_table) /\ ValidTable(dst_table)
              /\ OverTable(fwd[t].input, src_table)
              /\ CanonicalOver(fwd[t].input, src_table) )
            => /\ RenderAdvances(fwd[t], fwd'[t])
               /\ RenderAdvances(back[t].call, back'[t].call)
               /\ back'[t].call.pc # "none" =>
                      /\ back'[t].conv.src_table = dst_table
                      /\ back'[t].conv.dst_table = src_table
               /\ back'[t].call.pc = "done" => back'[t].call.res = Ok(fwd[t].input)
      ]_vars

RECURSIVE RunAlone(_, _)
\* What a call of convert on Converter conv returns when nothing else runs:
\* its turns one after the other (None when its render loop has not ended
\* after MaxDigits turns).
RunAlone(conv, call) ==
    IF call.pc = "done" THEN call.res
    ELSE IF ~CanStep(call) THEN None
    ELSE RunAlone(conv, ConvertStep(conv, call))

\* C13: however the turns of the convert calls on one Converter interleave,
\* every call returns what it returns when run alone, and no turn changes the
\* Converter, its tables or its lookup structures.
C13_Independent ==
    [][ /\ shared' = shared
        /\ \A t \in DOMAIN fwd :
               (fwd[t].pc # "done" /\ fwd'[t].pc = "done")
               => fwd'[t].res = RunAlone(shared, NewCall(fwd[t].input))
      ]_vars

\* Two calls on one Converter have returned different outputs of more than
\* one character, each having had turns of the other in between its own.
C13_Witness ==
    /\ DOMAIN fwd = {1, 2}
    /\ \A t \in {1, 2} :
           /\ fwd[t].pc = "done"
           /\ fwd[t].among
           /\ fwd[t].res.kind = "Ok"
           /\ Len(fwd[t].res.out) > 1
    /\ fwd[1].res # fwd[2].res

\* The natural number of the limbs: the sum of limbs[i] * radix^(i-1).
RECURSIVE WideValueFrom(_, _, _)
WideValueFrom(ar, limbs, i) ==
    IF i > Len(limbs) THEN <<>>
    ELSE WAdd(limbs[i], WMul(ar.radix, WideValueFrom(ar, limbs, i + 1)))

WideValue(ar, limbs) == WideValueFrom(ar, limbs, 1)

\* I1: no limb beyond the most significant non-zero one, zero is [0].
WideCanonical(limbs) ==
    /\ Len(limbs) >= 1
    /\ (limbs[Len(limbs)] # <<>> \/ limbs = wide_zero)

\* C14: after any calls of mul_small, add_small and div_mod_small (divisor
\* >= 1) on a BigInt that started at zero, in lib.rs and in big_int.rs, the
\* limbs are not empty and the most significant limb is not zero unless the
\* limbs are exactly [0].
C14_CanonicalForm == b_kind # "none" => WideCanonical(b_limbs)

\* A div_mod_small has left fewer limbs than it found, a number not zero.
C14_Witness ==
    /\ b_kind = "big_int"
    /\ b_last.op = "div_mod_small"
    /\ ~b_last.panic
    /\ Len(b_limbs) < Len(b_last.before)
    /\ b_limbs # wide_zero

\* The number a call should leave, from the number v it found.
Expected(op, v, small) ==
    IF op.op = "mul_small" THEN WMul(v, small)
    ELSE IF op.op = "add_small" THEN WAdd(v, small)
    ELSE IF op.op = "div_mod_small" THEN WDiv(v, small)
    ELSE v

\* C15: with R the modulus of the variant, a call of mul_small(k) on limbs of
\* value v leaves limbs of value v*k, add_small(k) leaves v+k, div_mod_small(k),
\* k >= 1, leaves floor(v/k) and returns v mod k; so the limbs are always worth
\* the number the calls compute.
C15_ReferenceArithmetic ==
    (b_kind # "none" /\ ~b_last.panic) =>
        /\ WideValue(Arith(b_kind), b_limbs)
               = Expected(b_last, WideValue(Arith(b_kind), b_last.before), b_last.small)
        /\ WideValue(Arith(b_kind), b_limbs) = b_ref
        /\ b_last.op = "div_mod_small"
               => b_last.rem = WMod(WideValue(Arith(b_kind), b_last.before), b_last.small)

\* A division of a number of two limbs of big_int.rs by 7 has left a remainder.
C15_Witness ==
    /\ b_kind = "big_int"
    /\ b_last.op = "div_mod_small"
    /\ b_last.small = <<7>>
    /\ Len(b_last.before) = 2
    /\ b_last.rem # <<>>
    /\ ~wide_is_zero(b_limbs)

\* C16: no intermediate of a call goes beyond its type (u64 in big_int.rs,
\* u128 in lib.rs), no value narrowed to u32 (limb, carry limb, quotient limb,
\* remainder) loses anything, and every stored limb is below the modulus.
C16_NoOverflow ==
    b_kind # "none" =>
        /\ b_last.flags = {}
        /\ WLess(b_last.rem, Two32)
        /\ \A i \in DOMAIN b_limbs : WLess(b_limbs[i], Arith(b_kind).radix)

\* big_int.rs has multiplied the greatest limb by u32::MAX and pushed a carry.
C16_Witness ==
    /\ b_kind = "big_int"
    /\ b_last.op = "mul_small"
    /\ b_last.small = U32Max
    /\ \E i \in DOMAIN b_last.before : b_last.before[i] = WSub(BigIntArith.radix, <<1>>)
    /\ Len(b_limbs) > Len(b_last.before)

\* C17: no call of convert_base or Converter::convert panics with a division by
\* zero (div_mod_small is never called with divisor 0) or with an index out of
\* the bounds of the destination characters (every remainder is an index into
\* them).
C17_NoDivisionByZero ==
    /\ \A i \in DOMAIN l_ret : l_ret[i].res.kind # "Panic"
    /\ \A i \in DOMAIN c_ret : c_ret[i].res.kind # "Panic"

\* C18: for valid tables the call with the empty input takes no turn of the
\* parse loop (no mul_small, no add_small), reports no error and returns Ok with
\* the character at index 0 of the destination table alone, which is what the
\* call with the source zero-digit alone returns.
C18_EmptyInputIsZero ==
    /\ \A r \in AllReturned :
           (r.input = <<>> /\ ValidTable(r.src_table) /\ ValidTable(r.dst_table)) =>
               /\ r.turns = 0
               /\ r.res = Ok(<<r.dst_table[1]>>)
    /\ \A r \in LibReturned :
           (r.leg = "padded" /\ input = <<>> /\ ValidCall(r)) =>
               /\ r.input = <<src_table[1]>>
               /\ r.turns = 1
               /\ r.res = l_ret[1].res

\* convert_base and Converter::convert have returned for the empty input, and
\* convert_base for the zero-digit alone, with tables of two characters.
C18_Witness ==
    /\ input = <<>>
    /\ Len(src_table) = 2
    /\ Len(dst_table) = 2
    /\ Len(l_ret) = 2
    /\ l_ret[2].leg = "padded"
    /\ ValidCall(l_ret[2])
    /\ l_ret[1].res = Ok(<<dst_table[1]>>)
    /\ l_ret[2].res = l_ret[1].res
    /\ Len(c_ret) = 1
    /\ c_ret[1].res = l_ret[1].res

====
